---- MODULE Spec2Model ----
(***************************************************************************)
(* Model of src/portfolio/src/app/page.tsx: the capability-gated hero      *)
(* section (useHasWebGL + Hero3D) and the per-frame rotation callbacks of  *)
(* Planet and MoonOrbit.                                                   *)
(*                                                                         *)
(* Angles are integers in units of 0.01 rad, frame deltas are whole        *)
(* seconds, so "delta * 0.1" is delta * 10 and "delta * 0.4" is delta * 40.*)
(***************************************************************************)
EXTENDS Integers, FiniteSets, Sequences, TLC

VARIABLES
    env,         \* the browser environment the page runs in (fixed per behaviour)
    pageMounted, \* LandingPage / Hero3D is mounted
    has,         \* the React state cell of useHasWebGL
    probeState,  \* position of the mount effect: "pending", "ok", "caught", "escaped"
    dirty,       \* a re-render of Hero3D is scheduled (setHas changed the state)
    view,        \* the components committed by the last render pass of Hero3D
    planetRef,   \* planetRef.current: NULL or the mesh
    group,       \* group.current (MoonOrbit): NULL or the group
    ring,        \* the OrbitRing mesh: NULL or the mesh
    tickDelta,   \* delta of the frame being processed
    pendingCbs,  \* useFrame subscribers still to be called in the current frame
    elapsed,     \* observer: sum of the deltas delivered to the mounted scene
    ticks,       \* observer: number of frames delivered (bounded)
    mounts,      \* observer: number of page mounts (bounded)
    torn         \* observer: <<planet y, group y>> at the last teardown, <<>> before one

vars == <<env, pageMounted, has, probeState, dirty, view, planetRef, group, ring,
          tickDelta, pendingCbs, elapsed, ticks, mounts, torn>>

\* ---------------------------------------------------------------- bounds
MaxTicks == 3
MaxDelta == 2
MaxMounts == 2

\* ------------------------------------------------------------- constants
\* a detached ref (ref.current === null): an object without an orientation
NULL == [rotation |-> <<>>]

\* delta * 0.1 (page.tsx:16), in 0.01 rad per second
PLANET_RATE == 10
\* delta * 0.4 (page.tsx:54), in 0.01 rad per second
MOON_RATE == 40
\* rotation={[Math.PI / 2.8, 0.2, 0]} of OrbitRing (page.tsx:43)
RING_ROTATION == <<112, 20, 0>>
\* rotation={[0.25, 0.2, 0]} of the MoonOrbit group (page.tsx:58)
GROUP_ROTATION == <<25, 20, 0>>
\* a new THREE.Mesh has rotation (0, 0, 0); Planet sets no rotation prop (page.tsx:20)
PLANET_ROTATION == <<0, 0, 0>>

\* --------------------------------------------------------- environments
\* What canvas.getContext(name) does: returns a context, returns null, throws.
ContextResults == {"ctx", "null", "throw"}

Environments ==
    [ctor : BOOLEAN,             \* window.WebGLRenderingContext is exposed
     webgl : ContextResults,     \* canvas.getContext("webgl")
     experimental : ContextResults, \* canvas.getContext("experimental-webgl")
     createThrows : BOOLEAN]     \* document.createElement("canvas") throws

\* typeof window !== "undefined": effects only run in the browser
WindowDefined == TRUE

\* --------------------------------------------------------- useHasWebGL
Returned(v) == [threw |-> FALSE, val |-> v]
Thrown == [threw |-> TRUE, val |-> FALSE]

\* canvas.getContext("webgl") || canvas.getContext("experimental-webgl")
GetContextBoth(e) ==
    IF e.webgl = "throw" THEN Thrown
    ELSE IF e.webgl = "null" THEN Returned(FALSE)
    ELSE IF e.experimental = "throw" THEN Thrown
    ELSE Returned(e.experimental = "ctx")

GetContextEither(e) ==
    IF e.webgl = "throw" THEN Thrown
    ELSE IF e.webgl = "ctx" THEN Returned(TRUE)
    ELSE IF e.experimental = "throw" THEN Thrown
    ELSE Returned(e.experimental = "ctx")

\* typeof window !== "undefined" && !!(window.WebGLRenderingContext && (...))
OkExpressionNoCtor(e) ==
    IF ~WindowDefined THEN Returned(FALSE)
    ELSE GetContextEither(e)

OkExpression(e) ==
    IF ~WindowDefined THEN Returned(FALSE)
    ELSE IF ~e.ctor THEN Returned(FALSE)
    ELSE GetContextEither(e)

\* the body of the try block
TryBody(e) ==
    IF e.createThrows THEN Thrown ELSE OkExpression(e)

\* try { ... setHas(ok) } catch { setHas(false) }
ProbeNoCatch(e) ==
    LET r == TryBody(e) IN
    IF r.threw THEN [set |-> FALSE, value |-> FALSE, outcome |-> "escaped"]
    ELSE [set |-> TRUE, value |-> r.val, outcome |-> "ok"]

Probe(e) ==
    LET r == TryBody(e) IN
    IF r.threw THEN [set |-> TRUE, value |-> FALSE, outcome |-> "caught"]
    ELSE [set |-> TRUE, value |-> r.val, outcome |-> "ok"]

\* React.useState(true)
InitialHasFalse == FALSE

InitialHas == TRUE

\* ---------------------------------------------------------------- Hero3D
\* {hasWebGL ? <Canvas>...</Canvas> : <div><FallbackNoWebGL /></div>}
Hero3DNoElse(h) == IF h THEN {"Canvas"} ELSE {}

Hero3D(h) == IF h THEN {"Canvas"} ELSE {"FallbackNoWebGL"}

SceneMounted == "Canvas" \in view
FallbackMounted == "FallbackNoWebGL" \in view

\* The scene objects a commit of view v creates; a commit without the Canvas
\* leaves none (React detaches the refs on unmount).
NewPlanet == [rotation |-> PLANET_ROTATION]
NewGroup == [rotation |-> GROUP_ROTATION]
NewRing == [rotation |-> RING_ROTATION]

RotY(obj) == obj.rotation[2]

\* rotation.y += delta * rate
AdvanceYAssign(obj, delta, rate) ==
    [obj EXCEPT !.rotation[2] = delta * rate]

AdvanceY(obj, delta, rate) ==
    [obj EXCEPT !.rotation[2] = @ + delta * rate]

\* observer: the angles of the scene objects that a teardown discards
Torn == IF planetRef # NULL /\ group # NULL
        THEN <<RotY(planetRef), RotY(group)>>
        ELSE torn

\* Commit of a render pass whose output is v: a Canvas that stays mounted keeps
\* its objects, a Canvas that appears creates them from their props, a pass
\* without the Canvas detaches the refs and discards the objects.
Commit(v) ==
    /\ view' = v
    /\ IF "Canvas" \in v
       THEN IF SceneMounted
            THEN UNCHANGED <<planetRef, group, ring, elapsed, torn>>
            ELSE /\ planetRef' = NewPlanet
                 /\ group' = NewGroup
                 /\ ring' = NewRing
                 /\ elapsed' = 0
                 /\ UNCHANGED torn
       ELSE /\ planetRef' = NULL
            /\ group' = NULL
            /\ ring' = NULL
            /\ torn' = Torn
            /\ UNCHANGED elapsed

\* ------------------------------------------------------------------ Init
\* The state after the initial render pass of LandingPage: useState(true),
\* Hero3D rendered with it, the mount effect of useHasWebGL not yet run.
Init ==
    /\ env \in Environments
    /\ pageMounted = TRUE
    /\ has = InitialHas
    /\ probeState = "pending"
    /\ dirty = FALSE
    /\ view = Hero3D(InitialHas)
    /\ planetRef = IF "Canvas" \in Hero3D(InitialHas) THEN NewPlanet ELSE NULL
    /\ group = IF "Canvas" \in Hero3D(InitialHas) THEN NewGroup ELSE NULL
    /\ ring = IF "Canvas" \in Hero3D(InitialHas) THEN NewRing ELSE NULL
    /\ tickDelta = 0
    /\ pendingCbs = {}
    /\ elapsed = 0
    /\ ticks = 0
    /\ mounts = 1
    /\ torn = <<>>

\* --------------------------------------------------------------- actions
\* React.useEffect(() => { try {...} catch {...} }, []): runs once after mount.
\* setHas(v) stores v and schedules a re-render only when v differs.
ProbeEffect ==
    /\ pageMounted
    /\ probeState = "pending"
    /\ pendingCbs = {}
    /\ LET p == Probe(env) IN
        /\ probeState' = p.outcome
        /\ has' = IF p.set THEN p.value ELSE has
        /\ dirty' = (p.set /\ p.value # has)
    /\ UNCHANGED <<env, pageMounted, view, planetRef, group, ring, tickDelta,
                   pendingCbs, elapsed, ticks, mounts, torn>>

\* The re-render of Hero3D that a state change schedules.
Render ==
    /\ pageMounted
    /\ dirty
    /\ pendingCbs = {}
    /\ dirty' = FALSE
    /\ Commit(Hero3D(has))
    /\ UNCHANGED <<env, pageMounted, has, probeState, tickDelta, pendingCbs,
                   ticks, mounts>>

\* The render loop starts a frame: every useFrame subscriber of the mounted
\* Canvas is called once with the same delta.
TickBegin ==
    /\ pageMounted
    /\ SceneMounted
    /\ pendingCbs = {}
    /\ ticks < MaxTicks
    /\ \E d \in 1..MaxDelta :
        /\ tickDelta' = d
        /\ elapsed' = elapsed + d
    /\ pendingCbs' = {"Planet", "MoonOrbit"}
    /\ ticks' = ticks + 1
    /\ UNCHANGED <<env, pageMounted, has, probeState, dirty, view, planetRef,
                   group, ring, mounts, torn>>

\* Planet's useFrame callback (page.tsx:14-18)
PlanetFrameBoth ==
    /\ "Planet" \in pendingCbs
    /\ pendingCbs' = pendingCbs \ {"Planet"}
    /\ planetRef' = IF planetRef # NULL
                    THEN AdvanceY(planetRef, tickDelta, PLANET_RATE)
                    ELSE planetRef
    /\ group' = IF group # NULL
                THEN AdvanceY(group, tickDelta, PLANET_RATE)
                ELSE group
    /\ UNCHANGED <<env, pageMounted, has, probeState, dirty, view, ring,
                   tickDelta, elapsed, ticks, mounts, torn>>

PlanetFrame ==
    /\ "Planet" \in pendingCbs
    /\ pendingCbs' = pendingCbs \ {"Planet"}
    /\ planetRef' = IF planetRef # NULL
                    THEN AdvanceY(planetRef, tickDelta, PLANET_RATE)
                    ELSE planetRef
    /\ UNCHANGED <<env, pageMounted, has, probeState, dirty, view, group, ring,
                   tickDelta, elapsed, ticks, mounts, torn>>

\* MoonOrbit's useFrame callback (page.tsx:52-56)
MoonFrame ==
    /\ "MoonOrbit" \in pendingCbs
    /\ pendingCbs' = pendingCbs \ {"MoonOrbit"}
    /\ group' = IF group # NULL
                THEN AdvanceY(group, tickDelta, MOON_RATE)
                ELSE group
    /\ UNCHANGED <<env, pageMounted, has, probeState, dirty, view, planetRef,
                   ring, tickDelta, elapsed, ticks, mounts, torn>>

\* LandingPage is unmounted (navigation away): every component under it is
\* torn down, refs are detached, useFrame subscriptions are removed.
PageUnmount ==
    /\ pageMounted
    /\ pendingCbs = {}
    /\ pageMounted' = FALSE
    /\ dirty' = FALSE
    /\ view' = {}
    /\ planetRef' = NULL
    /\ group' = NULL
    /\ ring' = NULL
    /\ torn' = Torn
    /\ UNCHANGED <<env, has, probeState, tickDelta, pendingCbs, elapsed, ticks,
                   mounts>>

\* LandingPage is mounted again: fresh hook state, fresh scene objects, the
\* mount effect is pending again.
PageMountKeepAngles ==
    /\ ~pageMounted
    /\ mounts < MaxMounts
    /\ pageMounted' = TRUE
    /\ mounts' = mounts + 1
    /\ has' = InitialHas
    /\ probeState' = "pending"
    /\ dirty' = FALSE
    /\ view' = Hero3D(InitialHas)
    /\ planetRef' = IF torn # <<>>
                    THEN [rotation |-> <<0, torn[1], 0>>] ELSE NewPlanet
    /\ group' = IF torn # <<>>
                THEN [rotation |-> <<25, torn[2], 0>>] ELSE NewGroup
    /\ ring' = NewRing
    /\ elapsed' = 0
    /\ tickDelta' = 0
    /\ UNCHANGED <<env, pendingCbs, ticks, torn>>

PageMount ==
    /\ ~pageMounted
    /\ mounts < MaxMounts
    /\ pageMounted' = TRUE
    /\ mounts' = mounts + 1
    /\ has' = InitialHas
    /\ probeState' = "pending"
    /\ dirty' = FALSE
    /\ view' = Hero3D(InitialHas)
    /\ planetRef' = IF "Canvas" \in Hero3D(InitialHas) THEN NewPlanet ELSE NULL
    /\ group' = IF "Canvas" \in Hero3D(InitialHas) THEN NewGroup ELSE NULL
    /\ ring' = IF "Canvas" \in Hero3D(InitialHas) THEN NewRing ELSE NULL
    /\ elapsed' = 0
    /\ tickDelta' = 0
    /\ UNCHANGED <<env, pendingCbs, ticks, torn>>

\* -------------------------------------------------------- specifications
\* One page lifetime.
Next ==
    \/ ProbeEffect
    \/ Render
    \/ TickBegin
    \/ PlanetFrame
    \/ MoonFrame

Spec == Init /\ [][Next]_vars

\* One page lifetime; the browser runs the scheduled effect, the scheduled
\* re-render and the subscribers of a started frame.
FairSpec ==
    /\ Init
    /\ [][Next]_vars
    /\ SF_vars(ProbeEffect)
    /\ SF_vars(Render)
    /\ WF_vars(PlanetFrame)
    /\ WF_vars(MoonFrame)

\* Several page lifetimes: the page is unmounted and mounted again.
NextLife ==
    \/ ProbeEffect
    \/ Render
    \/ TickBegin
    \/ PlanetFrame
    \/ MoonFrame
    \/ PageUnmount
    \/ PageMount

LifeSpec == Init /\ [][NextLife]_vars

TypeOK ==
    /\ env \in Environments
    /\ pageMounted \in BOOLEAN
    /\ has \in BOOLEAN
    /\ probeState \in {"pending", "ok", "caught"}
    /\ dirty \in BOOLEAN
    /\ view \subseteq {"Canvas", "FallbackNoWebGL"}
    /\ pendingCbs \subseteq {"Planet", "MoonOrbit"}
    /\ ticks \in 0..MaxTicks
    /\ mounts \in 1..MaxMounts

\* ================================================================ claims
Scene == {"Canvas"}
Fallback == {"FallbackNoWebGL"}

\* getContext returns null for "webgl" and for "experimental-webgl"
NoContextEnv == env.webgl = "null" /\ env.experimental = "null"

\* getContext returns a context for "webgl" or for "experimental-webgl"
SomeContextEnv == env.webgl = "ctx" \/ env.experimental = "ctx"

\* the probe obtains a context: the constructor is exposed, the canvas is
\* created and the first getContext call that does not return null returns one
ProbeSucceedsEnv ==
    /\ env.ctor
    /\ ~env.createThrows
    /\ \/ env.webgl = "ctx"
       \/ env.webgl = "null" /\ env.experimental = "ctx"

\* C1: where getContext returns null for both names, the fallback view is the
\* one mounted at every render pass and the 3D scene is never mounted.
C1_FallbackOnly == NoContextEnv => view = Fallback

\* C2 (as stated): where getContext returns a context for at least one name,
\* whatever the other signals, the 3D scene is mounted at every render pass.
C2_SceneWheneverSomeContext == SomeContextEnv => view = Scene

\* C2 (amended): where the constructor is exposed and the probe obtains a
\* context without a throw, the 3D scene is mounted at every render pass and
\* the fallback view never is.
C2_SceneWhenProbeSucceeds == ProbeSucceedsEnv => (view = Scene /\ has)

C2_Witness ==
    /\ ProbeSucceedsEnv
    /\ env.webgl = "null"
    /\ probeState = "ok"
    /\ view = Scene
    /\ ticks > 0

\* C3 (as stated): after ticks d1..dn the planet's rotation.y is 0.1 * sum,
\* the group's rotation.y is 0.4 * sum, and the latter is 4 times the former.
C3_AnglesAreRateTimesSum ==
    (SceneMounted /\ pendingCbs = {}) =>
        /\ RotY(planetRef) = PLANET_RATE * elapsed
        /\ RotY(group) = MOON_RATE * elapsed
        /\ RotY(group) = 4 * RotY(planetRef)

\* C3 (amended): after ticks d1..dn the planet's rotation.y is 0.1 * sum and
\* the group's rotation.y is its initial 0.2 plus 0.4 * sum, so the group's
\* advance since mount is 4 times the planet's.
C3_AdvanceIsRateTimesSum ==
    (SceneMounted /\ pendingCbs = {}) =>
        /\ RotY(planetRef) = 10 * elapsed
        /\ RotY(group) = 20 + 40 * elapsed
        /\ RotY(group) - 20 = 4 * RotY(planetRef)

C3_Witness ==
    /\ SceneMounted
    /\ pendingCbs = {}
    /\ ticks >= 2
    /\ elapsed = 3
    /\ RotY(planetRef) = 30
    /\ RotY(group) = 140

\* C4: in every state of the mounted hero section exactly one of the 3D scene
\* and the fallback view is mounted.
C4_ExactlyOneMounted ==
    pageMounted => (SceneMounted /\ ~FallbackMounted) \/ (FallbackMounted /\ ~SceneMounted)

C4_Witness ==
    /\ probeState # "pending"
    /\ ~dirty
    /\ ~has
    /\ FallbackMounted
    /\ ~SceneMounted

C5_WitnessFalse ==
    /\ probeState = "ok"
    /\ ~has
    /\ ~env.ctor
    /\ env.webgl = "ctx"

\* a step of the try block throws: createElement, or a getContext call the
\* expression reaches
ProbeThrowsEnv ==
    \/ env.createThrows
    \/ /\ env.ctor
       /\ \/ env.webgl = "throw"
          \/ env.webgl = "null" /\ env.experimental = "throw"

\* C6: no exception escapes the probe: when a step of it throws, or when the
\* constructor is absent, the probe ends normally with result false and the
\* fallback view is what the resulting render pass mounts.
C6_ProbeNeverEscapes ==
    /\ probeState \in {"pending", "ok", "caught"}
    /\ (probeState # "pending" /\ (ProbeThrowsEnv \/ ~env.ctor)) =>
           /\ ~has
           /\ ~dirty => view = Fallback

C6_Witness ==
    /\ probeState = "caught"
    /\ env.ctor
    /\ env.webgl = "null"
    /\ env.experimental = "throw"
    /\ ~dirty
    /\ view = Fallback

\* C7: within one page lifetime the result is computed once and never
\* re-probed, and the hero section never switches between the 3D scene and the
\* fallback view.
C7_NeverSwitches ==
    [][ /\ probeState # "pending" => probeState' = probeState
        /\ view' = view ]_vars

\* C8 (as stated): after mounts and unmounts of the scene with no tick in
\* between, the planet's and the group's angles equal their values before.
C8_AnglesSurviveRemount ==
    (SceneMounted /\ elapsed = 0 /\ torn # <<>>) =>
        <<RotY(planetRef), RotY(group)>> = torn

\* C8 (amended): mounting and unmounting never advance rotation state: a
\* teardown discards the objects, a mount creates them at their initial
\* orientation (planet y = 0, group y = 0.2) whatever the angles were before,
\* nothing but a frame callback of the mounted scene changes an angle, and no
\* angle exists or changes while the scene is unmounted.
C8_MountResetsAngles ==
    /\ [](SceneMounted /\ elapsed = 0 =>
             RotY(planetRef) = 0 /\ RotY(group) = 20)
    /\ [](~SceneMounted => planetRef = NULL /\ group = NULL /\ pendingCbs = {})
    /\ [][ /\ planetRef = NULL =>
                planetRef' \in {NULL, [rotation |-> <<0, 0, 0>>]}
           /\ group = NULL =>
                group' \in {NULL, [rotation |-> <<25, 20, 0>>]}
           /\ (pendingCbs' = pendingCbs /\ planetRef # NULL /\ planetRef' # NULL) =>
                (planetRef' = planetRef /\ group' = group) ]_vars

C8_Witness ==
    /\ mounts = 2
    /\ SceneMounted
    /\ elapsed = 0
    /\ torn # <<>>
    /\ torn[1] > 0
    /\ RotY(planetRef) = 0
    /\ RotY(group) = 20

\* C9: where the probe fails, the capability value is true on the initial
\* render pass (the 3D scene is mounted), is false once the mount effect has
\* run, changes at most once (from true to false, by the effect), and the
\* fallback view is eventually mounted forever.
C9_FlashThenFallback ==
    /\ ~ProbeSucceedsEnv => (has /\ view = Scene)
    /\ [](~ProbeSucceedsEnv /\ probeState # "pending" => ~has)
    /\ [][ ~ProbeSucceedsEnv =>
             (has' # has => has /\ ~has' /\ probeState = "pending"
                              /\ probeState' # "pending") ]_vars
    /\ ~ProbeSucceedsEnv => <>[](view = Fallback /\ ~has)

C9_Witness ==
    /\ NoContextEnv
    /\ probeState = "ok"
    /\ ~has
    /\ ~dirty
    /\ view = Fallback
    /\ torn # <<>>

\* C10: within a frame the two callbacks run in either order with the same
\* result: each advances its own object's rotation.y by its rate times the
\* frame's delta exactly once, leaves the other object and the ring alone, and
\* a frame starts only after the previous frame's callbacks have run.
C10_CallbacksIndependent ==
    /\ [](SceneMounted =>
            /\ RotY(planetRef) =
                 10 * (elapsed - IF "Planet" \in pendingCbs THEN tickDelta ELSE 0)
            /\ RotY(group) =
                 20 + 40 * (elapsed - IF "MoonOrbit" \in pendingCbs THEN tickDelta ELSE 0)
            /\ ring.rotation = <<112, 20, 0>>)
    /\ [][ /\ "Planet" \in pendingCbs \ pendingCbs' =>
                /\ RotY(planetRef') = RotY(planetRef) + 10 * tickDelta
                /\ group' = group
                /\ ring' = ring
                /\ pendingCbs' = pendingCbs \ {"Planet"}
           /\ "MoonOrbit" \in pendingCbs \ pendingCbs' =>
                /\ RotY(group') = RotY(group) + 40 * tickDelta
                /\ planetRef' = planetRef
                /\ ring' = ring
                /\ pendingCbs' = pendingCbs \ {"MoonOrbit"}
           /\ ticks' # ticks =>
                (pendingCbs = {} /\ pendingCbs' = {"Planet", "MoonOrbit"}) ]_vars

C10_Witness ==
    /\ SceneMounted
    /\ ticks = 2
    /\ pendingCbs = {"Planet"}
    /\ RotY(group) = 20 + 40 * elapsed
    /\ RotY(planetRef) = 10 * (elapsed - tickDelta)

====
